---- MODULE Spec2Model ----
(***************************************************************************)
(* CurrentMeter.ino (Arduino Nano, ADS1115, EEPROM calibration store).     *)
(*                                                                         *)
(* The model has two concurrency domains: the main thread (setup() and the *)
(* steps of loop()) and the ADC-ready interrupt handler ADCread().  The    *)
(* main thread is cut where the interrupt can make a difference: at the    *)
(* test of gotADCValue, at its clear, at ads1115.getValue(), and around    *)
(* the blocking parts of the 'G' command (delay(100) and getFloat()).      *)
(*                                                                         *)
(* Number representation.  int is 16 bits and long is 32 bits on the AVR   *)
(* target.  A float is modelled in fixed point:                            *)
(*   ADCCal      in 1/1000           (1.0 is 1000)                         *)
(*   VFull       in millivolts       (4.096 is 4096)                       *)
(*   VScale      in 1e-8 V per bit                                         *)
(*   fADCOffset  in 1/1000 of a code                                       *)
(*   Amps        in 1e-8 A                                                 *)
(* The EEPROM is a byte array; EEPROM.put/get copy the object bytes of an  *)
(* int (2), a long (4) and a float (4, IEEE-754 single, little endian).    *)
(***************************************************************************)
EXTENDS Integers, Sequences, FiniteSets, TLC

(***************************************************************************)
(* Bounds of the model                                                     *)
(***************************************************************************)
\* number of samples per window (430 in the program, line 71)
nSample == 2
\* total number of ADC-ready interrupts in a run
MaxIrq == 4
\* bytes the serial receive buffer holds in the model
MaxRx == 2
\* largest ADC code the converter delivers in the model
MaxCode == 1

\* ADC codes delivered by ads1115.getValue()
Codes == {0, MaxCode}

(***************************************************************************)
(* Program constants                                                       *)
(***************************************************************************)
EEPROMFlag == 12345
EEPROMProgrammedFlagAddr == 0
SizeofInt == 2
SizeofFloat == 4
SizeofLong == 4
ADCCalAddr_Shifted == EEPROMProgrammedFlagAddr + SizeofInt + SizeofLong
ADCCalAddr == EEPROMProgrammedFlagAddr + SizeofInt
ADCOffsetAddr_Overlap == ADCCalAddr + SizeofInt
ADCOffsetAddr == ADCCalAddr + SizeofFloat
EEPROMSize == ADCOffsetAddr + SizeofLong

\* float ADCFull = 32767
ADCFull == 32767
\* float VFull = FSR2 = 4.096, in millivolts
VFull == 4096
\* reset values of the extrema (lines 132-133, 189-190)
HighReset == -32768
LowReset == 32767
\* ADCCal = 1.0 in 1/1000
CalOne == 1000
\* a float bit pattern outside the modelled values (e.g. erased EEPROM)
NaN == -1

\* float values the model distinguishes: 0.5, 1.0, 2.0
FloatVals == {500, CalOne, 2000}

(***************************************************************************)
(* Serial input alphabet.  The terminal sends lines: a line is one byte of  *)
(* Chars followed by its terminator "EOL", or is empty ("LF" alone).  "LF"  *)
(* and "EOL" both stand for bytes 10/13, "x" for any byte without a case   *)
(* label.  A line starts when the receive buffer is empty; its terminator  *)
(* arrives at any later time.                                              *)
(***************************************************************************)
Chars == {"LF", "?", "G", "K", ")", "!", "O", "P", "S", "x"}
TailChars == {"EOL"}
Terminators == {"LF", "EOL"}

(***************************************************************************)
(* Arithmetic helpers                                                      *)
(***************************************************************************)
\* C integer division (truncation toward zero), divisor > 0
CDiv(a, b) == IF a >= 0 THEN a \div b ELSE -((-a) \div b)

RECURSIVE SumSeq(_)
SumSeq(s) == IF s = <<>> THEN 0 ELSE Head(s) + SumSeq(Tail(s))

Range(s) == {s[i] : i \in 1..Len(s)}
MaxOf(S) == CHOOSE x \in S : \A y \in S : y <= x
MinOf(S) == CHOOSE x \in S : \A y \in S : x <= y

\* low 16 bits of a value, read as a signed int
ToInt16(v) == LET u == v % 65536 IN IF u >= 32768 THEN u - 65536 ELSE u

(***************************************************************************)
(* EEPROM.put / EEPROM.get: object bytes, little endian                    *)
(***************************************************************************)
\* the k-th byte (0-based) of the two's complement representation of v
ByteOf(v, k) ==
  LET sh[i \in 0..k] == IF i = 0 THEN v ELSE sh[i-1] \div 256
  IN sh[k] % 256

IntBytes(v) == [k \in 1..SizeofInt |-> ByteOf(v, k-1)]
LongBytes(v) == [k \in 1..SizeofLong |-> ByteOf(v, k-1)]
\* IEEE-754 single precision
FloatBytes(v) ==
  CASE v = 500  -> <<0, 0, 0, 63>>
    [] v = 1000 -> <<0, 0, 128, 63>>
    [] v = 2000 -> <<0, 0, 0, 64>>
    [] OTHER    -> <<255, 255, 255, 255>>

\* write the bytes bs at address a
PutBytes(e, a, bs) ==
  [i \in 1..Len(e) |-> IF i - 1 >= a /\ i - 1 < a + Len(bs) THEN bs[i - a] ELSE e[i]]
GetBytes(e, a, n) == [k \in 1..n |-> e[a + k]]

Signed(b) == IF b >= 128 THEN b - 256 ELSE b
BytesInt(bs) == bs[1] + 256 * Signed(bs[2])
BytesLong(bs) == bs[1] + 256 * bs[2] + 65536 * bs[3] + 16777216 * Signed(bs[4])
BytesFloat(bs) ==
  IF \E v \in FloatVals : FloatBytes(v) = bs
  THEN CHOOSE v \in FloatVals : FloatBytes(v) = bs
  ELSE NaN

PutInt(e, a, v) == PutBytes(e, a, IntBytes(v))
PutLong(e, a, v) == PutBytes(e, a, LongBytes(v))
PutFloat(e, a, v) == PutBytes(e, a, FloatBytes(v))
GetInt(e, a) == BytesInt(GetBytes(e, a, SizeofInt))
GetLong(e, a) == BytesLong(GetBytes(e, a, SizeofLong))
GetFloat(e, a) == BytesFloat(GetBytes(e, a, SizeofFloat))

\* EEPROM contents at power-up: erased, or left programmed by an earlier run
Erased == [i \in 1..EEPROMSize |-> 255]
Programmed(off, cal) ==
  PutLong(PutFloat(PutInt(Erased, EEPROMProgrammedFlagAddr, EEPROMFlag),
                   ADCCalAddr, cal), ADCOffsetAddr, off)
\* left by another program: values in place, but not the flag of line 92
Foreign == PutInt(Programmed(1, 2000), EEPROMProgrammedFlagAddr, 0)
InitialEEPROMs == {Erased, Foreign, Programmed(1, 2000)}

\* EEPROM.put(ADCOffsetAddr, ADCOffset), lines 242 and 259
StoreOffset(e, v) == PutLong(e, ADCOffsetAddr, v)
\* EEPROM.put(ADCCalAddr, ADCCal), lines 250 and 370
StoreCal_Skip(e, v) == e
StoreCal(e, v) == PutFloat(e, ADCCalAddr, v)

(***************************************************************************)
(* Derived calibration values                                              *)
(***************************************************************************)
\* VScale = ADCCal * VFull / ADCFull
VScaleOf(cal) == IF cal = NaN THEN NaN ELSE (cal * VFull * 100) \div ADCFull
\* fADCOffset = float(ADCOffset)/float(nSample)
fOffsetOf(off) == CDiv(off * 1000, nSample)
\* VScale * (float) q
FMul(vs, q) == IF vs = NaN THEN NaN ELSE vs * q

VARIABLES
  pc,           \* position of the main thread
  eeprom,       \* EEPROM bytes 0 .. EEPROMSize-1
  gotADCValue,  \* volatile flag set by ADCread()
  ADCValSum, ADCVal0, ADCHigh, ADCLow, sample,
  VScale, ADCCal, ADCOffset, fADCOffset, SerialDisplay,
  rx,           \* serial receive buffer
  lineOpen,     \* the terminal has sent the first byte of a line, not yet its terminator
  adcReg,       \* ADS1115 conversion register (latest conversion)
  \* history variables
  regRead,      \* the conversion in adcReg has already been read by loop()
  win,          \* codes aggregated since the last window reset
  lastRaw,      \* sum of the codes of the last window completed since start-up
  offsetBy,     \* operation that produced the stored offset
  nIrq, nAgg,   \* ready interrupts raised / samples aggregated
  blockIrq,     \* ready interrupts raised during the 'G' block in progress
  ev            \* what the last step did

vars == <<pc, eeprom, gotADCValue, ADCValSum, ADCVal0, ADCHigh, ADCLow, sample,
          VScale, ADCCal, ADCOffset, fADCOffset, SerialDisplay, rx, lineOpen,
          adcReg, regRead, win, lastRaw, offsetBy, nIrq, nAgg, blockIrq, ev>>

windowVars == <<ADCValSum, ADCVal0, ADCHigh, ADCLow, sample, win, lastRaw, nAgg>>
calVars == <<VScale, ADCCal, ADCOffset, fADCOffset, eeprom, offsetBy>>
adcVars == <<gotADCValue, adcReg, regRead, nIrq>>

Event(op, out) ==
  [op |-> op, out |-> out, log |-> <<>>, done |-> <<>>, stale |-> FALSE, ier |-> 0,
   prevOffset |-> 0, cmdChar |-> ""]


(***************************************************************************)
(* Power-up: globals are zero-initialised, the EEPROM keeps its contents   *)
(***************************************************************************)
Init ==
  /\ pc = "setup"
  /\ eeprom \in InitialEEPROMs
  /\ gotADCValue = FALSE
  /\ ADCValSum = 0 /\ ADCVal0 = 0 /\ ADCHigh = 0 /\ ADCLow = 0 /\ sample = 0
  /\ VScale = 0 /\ ADCCal = 0 /\ ADCOffset = 0 /\ fADCOffset = 0
  /\ SerialDisplay = FALSE
  /\ rx = <<>>
  /\ lineOpen = FALSE
  /\ adcReg = 0
  /\ regRead = TRUE
  /\ win = <<>>
  /\ lastRaw = 0
  /\ offsetBy = "boot"
  /\ nIrq = 0 /\ nAgg = 0 /\ blockIrq = 0
  /\ ev = Event("power-up", <<>>)

(***************************************************************************)
(* setup(), lines 103-148                                                  *)
(***************************************************************************)
\* lines 113-123: load defaults into an EEPROM that is not programmed
SetupStore_NoCal(e) ==
  IF GetInt(e, EEPROMProgrammedFlagAddr) # EEPROMFlag
  THEN PutLong(PutInt(e, EEPROMProgrammedFlagAddr, EEPROMFlag), ADCOffsetAddr, 0)
  ELSE e
SetupStore_Always(e) ==
  PutFloat(PutLong(PutInt(e, EEPROMProgrammedFlagAddr, EEPROMFlag),
                   ADCOffsetAddr, 0), ADCCalAddr, CalOne)
SetupStore(e) ==
  IF GetInt(e, EEPROMProgrammedFlagAddr) # EEPROMFlag
  THEN PutFloat(PutLong(PutInt(e, EEPROMProgrammedFlagAddr, EEPROMFlag),
                        ADCOffsetAddr, 0), ADCCalAddr, CalOne)
  ELSE e

\* lines 112-148 on EEPROM contents e
SetupBody(e, op) ==
  /\ eeprom' = SetupStore(e)
  /\ ADCOffset' = GetLong(eeprom', ADCOffsetAddr)
  /\ fADCOffset' = fOffsetOf(ADCOffset')
  /\ ADCCal' = GetFloat(eeprom', ADCCalAddr)
  /\ VScale' = VScaleOf(ADCCal')
  /\ ADCHigh' = HighReset
  /\ ADCLow' = LowReset
  /\ pc' = "test"
  /\ ev' = Event(op, IF eeprom' # e
                     THEN <<"version", "loading defaults", "menu hint", "prompt">>
                     ELSE <<"version", "menu hint", "prompt">>)

setup ==
  /\ UNCHANGED lineOpen
  /\ pc = "setup"
  /\ SetupBody(eeprom, "setup")
  /\ UNCHANGED <<gotADCValue, ADCValSum, ADCVal0, sample, SerialDisplay, rx, adcReg,
                 regRead, win, lastRaw, offsetBy, nIrq, nAgg, blockIrq>>

\* reset or power cycle at any time after setup(), followed by setup();
\* the terminal starts a new line afterwards
Restart ==
  /\ lineOpen' = FALSE
  /\ pc # "setup"
  /\ gotADCValue' = FALSE
  /\ ADCValSum' = 0 /\ ADCVal0' = 0 /\ sample' = 0
  /\ SerialDisplay' = FALSE
  /\ rx' = <<>>
  /\ win' = <<>> /\ lastRaw' = 0 /\ blockIrq' = 0
  /\ SetupBody(eeprom, "restart")
  /\ UNCHANGED <<adcReg, regRead, offsetBy, nIrq, nAgg>>

(***************************************************************************)
(* ADCread(), lines 383-387, run when a conversion completes               *)
(***************************************************************************)
\* the handler with the flag left as it was
ADCreadCore_NoFlag ==
  /\ UNCHANGED lineOpen
  /\ pc # "setup"
  /\ \E c \in Codes : adcReg' = c
  /\ regRead' = FALSE
  /\ UNCHANGED gotADCValue
  /\ ev' = Event("irq", <<>>)
  /\ UNCHANGED <<pc, rx, SerialDisplay>>
  /\ UNCHANGED windowVars
  /\ UNCHANGED calVars
\* a new conversion result is in the ADC register and the handler sets the flag
ADCreadCore ==
  /\ UNCHANGED lineOpen
  /\ pc # "setup"
  /\ \E c \in Codes : adcReg' = c
  /\ regRead' = FALSE
  /\ gotADCValue' = TRUE
  /\ ev' = Event("irq", <<>>)
  /\ UNCHANGED <<pc, rx, SerialDisplay>>
  /\ UNCHANGED windowVars
  /\ UNCHANGED calVars
\* with the interrupts counted, up to MaxIrq of them
ADCread ==
  /\ nIrq < MaxIrq
  /\ ADCreadCore
  /\ nIrq' = nIrq + 1
  /\ blockIrq' = IF pc \in {"delay", "dialog"} THEN blockIrq + 1 ELSE blockIrq
\* with the interrupts not counted, any number of them
ADCreadLive ==
  /\ ADCreadCore
  /\ UNCHANGED <<nIrq, blockIrq>>

\* a byte arrives on the serial link
SerialRx ==
  /\ pc # "setup"
  /\ Len(rx) < MaxRx
  /\ \E b \in (IF lineOpen THEN TailChars ELSE IF rx = <<>> THEN Chars ELSE {}) :
       /\ rx' = Append(rx, b)
       /\ lineOpen' = (b \notin Terminators)
  /\ ev' = Event("rx", <<>>)
  /\ UNCHANGED <<pc, SerialDisplay, blockIrq>>
  /\ UNCHANGED windowVars
  /\ UNCHANGED calVars
  /\ UNCHANGED adcVars

(***************************************************************************)
(* loop(): sample aggregation, lines 159-193                               *)
(***************************************************************************)
\* line 159
LoopTest ==
  /\ UNCHANGED lineOpen
  /\ pc = "test"
  /\ pc' = IF gotADCValue THEN "clear" ELSE "serial"
  /\ ev' = Event("test", <<>>)
  /\ UNCHANGED <<rx, SerialDisplay, blockIrq>>
  /\ UNCHANGED windowVars
  /\ UNCHANGED calVars
  /\ UNCHANGED adcVars

\* line 161
LoopClear_Skip ==
  /\ UNCHANGED lineOpen
  /\ pc = "clear"
  /\ pc' = "read"
  /\ ev' = Event("clear", <<>>)
  /\ UNCHANGED <<rx, SerialDisplay, blockIrq, gotADCValue, adcReg, regRead, nIrq>>
  /\ UNCHANGED windowVars
  /\ UNCHANGED calVars
LoopClear ==
  /\ UNCHANGED lineOpen
  /\ pc = "clear"
  /\ gotADCValue' = FALSE
  /\ pc' = "read"
  /\ ev' = Event("clear", <<>>)
  /\ UNCHANGED <<rx, SerialDisplay, blockIrq, adcReg, regRead, nIrq>>
  /\ UNCHANGED windowVars
  /\ UNCHANGED calVars

\* lines 163-164
NewHigh(v, hi) == IF v > hi THEN v ELSE hi
NewLow_Greater(v, lo) == IF v > lo THEN v ELSE lo
NewLow(v, lo) == IF v < lo THEN v ELSE lo
\* line 169: the raw sum kept for the offset capture
RawSum_Corrected(sum, off) == sum + off
RawSum(sum, off) == sum
\* line 170
CorrectedSum_Raw(sum, off) == sum
CorrectedSum_Minus(sum, off) == sum - off
CorrectedSum(sum, off) == sum + off
\* line 171: Amps = VScale*(ADCValSum/sample)
AmpsOf(vs, csum, n) == FMul(vs, CDiv(csum, n))

\* line 167: the window is complete
WindowFull_Late(n) == n > nSample
WindowFull(n) == n >= nSample

\* Print_Data(), lines 325-336: ADCValSum already holds the corrected sum;
\* "%6d" takes the low 16 bits of the long quotient
Print_Data_Swapped(csum, n, amps, hi, lo, vs, foff) ==
  [mean  |-> ToInt16(CDiv(csum, n)),
   amps  |-> amps,
   high  |-> FMul(vs, lo * 1000 + foff),
   low   |-> FMul(vs, hi * 1000 + foff),
   delta |-> FMul(vs, lo * 1000 + foff) - FMul(vs, hi * 1000 + foff)]
Print_Data(csum, n, amps, hi, lo, vs, foff) ==
  [mean  |-> ToInt16(CDiv(csum, n)),
   amps  |-> amps,
   high  |-> FMul(vs, hi * 1000 + foff),
   low   |-> FMul(vs, lo * 1000 + foff),
   delta |-> FMul(vs, hi * 1000 + foff) - FMul(vs, lo * 1000 + foff)]

\* lines 162-192
LoopReadCore ==
  /\ UNCHANGED lineOpen
  /\ pc = "read"
  /\ LET v    == adcReg
         hi   == NewHigh(v, ADCHigh)
         lo   == NewLow(v, ADCLow)
         sum  == ADCValSum + v
         n    == sample + 1
         csum == CorrectedSum(sum, ADCOffset)
         amps == AmpsOf(VScale, csum, n)
     IN /\ regRead' = TRUE
        /\ IF WindowFull(n)
           THEN /\ ADCVal0' = RawSum(sum, ADCOffset)
                /\ lastRaw' = SumSeq(Append(win, v))
                /\ ADCValSum' = 0
                /\ ADCHigh' = HighReset
                /\ ADCLow' = LowReset
                /\ sample' = 0
                /\ win' = <<>>
                /\ ev' = [Event("read", <<>>) EXCEPT
                            !.stale = regRead,
                            !.done = <<[sum |-> ADCVal0', n |-> n, high |-> hi, low |-> lo,
                                        codes |-> Append(win, v), csum |-> csum,
                                        amps |-> amps, neg |-> amps < 0,
                                        shown |-> IF amps < 0 THEN -amps ELSE amps,
                                        led |-> "toggle"]>>,
                            !.log = IF SerialDisplay
                                    THEN <<Print_Data(csum, n, amps, hi, lo, VScale, fADCOffset)>>
                                    ELSE <<>>]
           ELSE /\ ADCValSum' = sum
                /\ ADCHigh' = hi
                /\ ADCLow' = lo
                /\ sample' = n
                /\ win' = Append(win, v)
                /\ ev' = [Event("read", <<>>) EXCEPT !.stale = regRead]
                /\ UNCHANGED <<ADCVal0, lastRaw>>
  /\ pc' = "serial"
  /\ UNCHANGED <<rx, SerialDisplay, blockIrq, gotADCValue, adcReg, nIrq>>
  /\ UNCHANGED calVars
\* with the aggregated readings counted
LoopRead ==
  /\ LoopReadCore
  /\ nAgg' = nAgg + 1
\* with the aggregated readings not counted
LoopReadLive ==
  /\ LoopReadCore
  /\ UNCHANGED nAgg

(***************************************************************************)
(* loop(): command interpreter, lines 196-286                              *)
(* cmdChar is the first buffered byte; line 199 discards the rest.         *)
(***************************************************************************)
Dispatch(chars) == pc = "serial" /\ rx # <<>> /\ Head(rx) \in chars

\* a handler that returns to the top of loop() (flush of lines 199 and 285)
Return(op, out) ==
  /\ rx' = <<>>
  /\ pc' = "test"
  /\ ev' = [Event(op, out) EXCEPT !.cmdChar = Head(rx)]

\* line 196: nothing buffered
LoopIdle ==
  /\ UNCHANGED lineOpen
  /\ pc = "serial"
  /\ rx = <<>>
  /\ pc' = "test"
  /\ ev' = Event("idle", <<>>)
  /\ UNCHANGED <<rx, SerialDisplay, blockIrq>>
  /\ UNCHANGED windowVars
  /\ UNCHANGED calVars
  /\ UNCHANGED adcVars

\* lines 202-208
CmdNewline ==
  /\ UNCHANGED lineOpen
  /\ Dispatch(Terminators)
  /\ Return("newline", <<"newline", "version", "menu hint", "prompt">>)
  /\ UNCHANGED <<SerialDisplay, blockIrq>>
  /\ UNCHANGED windowVars
  /\ UNCHANGED calVars
  /\ UNCHANGED adcVars

\* lines 209-223
CmdHelp ==
  /\ UNCHANGED lineOpen
  /\ Dispatch({"?", "/", "H", "h"})
  /\ Return("help", <<"echo", "help", "prompt">>)
  /\ UNCHANGED <<SerialDisplay, blockIrq>>
  /\ UNCHANGED windowVars
  /\ UNCHANGED calVars
  /\ UNCHANGED adcVars

\* lines 232-238
CmdKick ==
  /\ UNCHANGED lineOpen
  /\ Dispatch({"K", "k"})
  /\ Return("kick", <<"echo", "Kicked ADC.", "prompt">>)
  /\ UNCHANGED <<SerialDisplay, blockIrq>>
  /\ UNCHANGED windowVars
  /\ UNCHANGED calVars
  /\ UNCHANGED adcVars

\* lines 239-246
CmdZeroOffset ==
  /\ UNCHANGED lineOpen
  /\ Dispatch({")"})
  /\ ADCOffset' = 0
  /\ eeprom' = StoreOffset(eeprom, ADCOffset')
  /\ fADCOffset' = fOffsetOf(ADCOffset')
  /\ offsetBy' = ")"
  /\ rx' = <<>>
  /\ pc' = "test"
  /\ ev' = [Event("zero offset", <<"echo", "Offset set to zero.", "prompt">>)
              EXCEPT !.prevOffset = ADCOffset, !.cmdChar = Head(rx)]
  /\ UNCHANGED <<VScale, ADCCal, SerialDisplay, blockIrq>>
  /\ UNCHANGED windowVars
  /\ UNCHANGED adcVars

\* lines 247-254
CmdGainOne_StaleScale ==
  /\ UNCHANGED lineOpen
  /\ Dispatch({"!"})
  /\ ADCCal' = CalOne
  /\ eeprom' = StoreCal(eeprom, ADCCal')
  /\ Return("gain one", <<"echo", "Gain set to one.", "prompt">>)
  /\ UNCHANGED <<VScale, ADCOffset, fADCOffset, offsetBy, SerialDisplay, blockIrq>>
  /\ UNCHANGED windowVars
  /\ UNCHANGED adcVars
CmdGainOne ==
  /\ UNCHANGED lineOpen
  /\ Dispatch({"!"})
  /\ ADCCal' = CalOne
  /\ eeprom' = StoreCal(eeprom, ADCCal')
  /\ VScale' = VScaleOf(ADCCal')
  /\ Return("gain one", <<"echo", "Gain set to one.", "prompt">>)
  /\ UNCHANGED <<ADCOffset, fADCOffset, offsetBy, SerialDisplay, blockIrq>>
  /\ UNCHANGED windowVars
  /\ UNCHANGED adcVars

\* lines 255-263
CmdCaptureOffset_ResetsWindow ==
  /\ UNCHANGED lineOpen
  /\ Dispatch({"O", "o"})
  /\ ADCOffset' = -ADCVal0
  /\ eeprom' = StoreOffset(eeprom, ADCOffset')
  /\ fADCOffset' = fOffsetOf(ADCOffset')
  /\ offsetBy' = "O"
  /\ rx' = <<>>
  /\ pc' = "test"
  /\ ev' = [Event("capture offset", <<"echo", "Offset captured and saved.", "prompt">>)
              EXCEPT !.prevOffset = ADCOffset, !.cmdChar = Head(rx)]
  /\ ADCValSum' = 0 /\ sample' = 0 /\ win' = <<>>
  /\ ADCHigh' = HighReset /\ ADCLow' = LowReset
  /\ UNCHANGED <<ADCVal0, lastRaw, nAgg>>
  /\ UNCHANGED <<VScale, ADCCal, SerialDisplay, blockIrq>>
  /\ UNCHANGED adcVars
CmdCaptureOffset ==
  /\ UNCHANGED lineOpen
  /\ Dispatch({"O", "o"})
  /\ ADCOffset' = -ADCVal0
  /\ eeprom' = StoreOffset(eeprom, ADCOffset')
  /\ fADCOffset' = fOffsetOf(ADCOffset')
  /\ offsetBy' = "O"
  /\ rx' = <<>>
  /\ pc' = "test"
  /\ ev' = [Event("capture offset", <<"echo", "Offset captured and saved.", "prompt">>)
              EXCEPT !.prevOffset = ADCOffset, !.cmdChar = Head(rx)]
  /\ UNCHANGED <<VScale, ADCCal, SerialDisplay, blockIrq>>
  /\ UNCHANGED windowVars
  /\ UNCHANGED adcVars

\* lines 264-269 and Display_parameters(), lines 341-355
CmdParameters ==
  /\ UNCHANGED lineOpen
  /\ Dispatch({"P", "p"})
  /\ Return("parameters", <<"echo", "parameters", "prompt">>)
  /\ UNCHANGED <<SerialDisplay, blockIrq>>
  /\ UNCHANGED windowVars
  /\ UNCHANGED calVars
  /\ UNCHANGED adcVars

\* Display_Header(), lines 312-320: the column line, with a rule above it
\* when logging was turned off and a blank line above and a rule below it
\* when logging was turned on
Display_Header_Repeat(on) ==
  IF on THEN <<"blank", "columns", "rule", "columns">> ELSE <<"rule", "columns">>
Display_Header(on) ==
  IF on THEN <<"blank", "columns", "rule">> ELSE <<"rule", "columns">>

\* lines 270-274
CmdToggleLog ==
  /\ UNCHANGED lineOpen
  /\ Dispatch({"S", "s"})
  /\ SerialDisplay' = ~SerialDisplay
  /\ Return("toggle log", Display_Header(SerialDisplay'))
  /\ UNCHANGED blockIrq
  /\ UNCHANGED windowVars
  /\ UNCHANGED calVars
  /\ UNCHANGED adcVars

\* lines 275-282
CmdUnknown ==
  /\ UNCHANGED lineOpen
  /\ Dispatch({"x"})
  /\ Return("unknown", <<"??", "prompt">>)
  /\ UNCHANGED <<SerialDisplay, blockIrq>>
  /\ UNCHANGED windowVars
  /\ UNCHANGED calVars
  /\ UNCHANGED adcVars

\* lines 224-227: echo, then delay(100)
CmdSetGain ==
  /\ UNCHANGED lineOpen
  /\ Dispatch({"G", "g"})
  /\ rx' = <<>>
  /\ pc' = "delay"
  /\ blockIrq' = 0
  /\ ev' = [Event("set gain", <<"echo">>) EXCEPT !.cmdChar = Head(rx)]
  /\ UNCHANGED SerialDisplay
  /\ UNCHANGED windowVars
  /\ UNCHANGED calVars
  /\ UNCHANGED adcVars

\* line 228 and line 364: flush, then prompt for the value
DelayDone_ClearsFlag ==
  /\ UNCHANGED lineOpen
  /\ pc = "delay"
  /\ rx' = <<>>
  /\ pc' = "dialog"
  /\ gotADCValue' = FALSE
  /\ ev' = Event("enter scale", <<"Enter scale factor">>)
  /\ UNCHANGED <<SerialDisplay, blockIrq, adcReg, regRead, nIrq>>
  /\ UNCHANGED windowVars
  /\ UNCHANGED calVars
DelayDone ==
  /\ UNCHANGED lineOpen
  /\ pc = "delay"
  /\ rx' = <<>>
  /\ pc' = "dialog"
  /\ ev' = Event("enter scale", <<"Enter scale factor">>)
  /\ UNCHANGED <<SerialDisplay, blockIrq>>
  /\ UNCHANGED windowVars
  /\ UNCHANGED calVars
  /\ UNCHANGED adcVars

\* getFloat(&aflt, 10000): what the blocking read of the entry returns
\* (ier > 0: a value was parsed and is within the bound)
GetFloatResults ==
  {[ier |-> 1, aflt |-> 500], [ier |-> 1, aflt |-> 2000],
   [ier |-> 0, aflt |-> 0], [ier |-> -1, aflt |-> 2000]}

\* line 367
Accepted_Zero(ier) == ier >= 0
Accepted(ier) == ier > 0

\* Set_Scale(), lines 365-377, then lines 230 and 285
Set_Scale ==
  /\ UNCHANGED lineOpen
  /\ pc = "dialog"
  /\ \E r \in GetFloatResults :
       IF Accepted(r.ier)
       THEN /\ ADCCal' = r.aflt
            /\ eeprom' = StoreCal(eeprom, ADCCal')
            /\ VScale' = VScaleOf(ADCCal')
            /\ ev' = [Event("set scale", <<"Scale factor (ADCCal) =", "prompt">>)
                        EXCEPT !.ier = r.ier]
       ELSE /\ UNCHANGED <<ADCCal, eeprom, VScale>>
            /\ ev' = [Event("set scale", <<"Scale factor not updated =", "prompt">>)
                        EXCEPT !.ier = r.ier]
  /\ rx' = <<>>
  /\ pc' = "test"
  /\ blockIrq' = 0
  /\ UNCHANGED <<ADCOffset, fADCOffset, offsetBy, SerialDisplay>>
  /\ UNCHANGED windowVars
  /\ UNCHANGED adcVars

Next ==
  \/ setup
  \/ Restart
  \/ ADCread
  \/ SerialRx
  \/ LoopTest
  \/ LoopClear
  \/ LoopRead
  \/ LoopIdle
  \/ CmdNewline
  \/ CmdHelp
  \/ CmdSetGain
  \/ DelayDone
  \/ Set_Scale
  \/ CmdKick
  \/ CmdZeroOffset
  \/ CmdGainOne
  \/ CmdCaptureOffset
  \/ CmdParameters
  \/ CmdToggleLog
  \/ CmdUnknown

Spec == Init /\ [][Next]_vars

(***************************************************************************)
(* The program running without end: no restart, interrupts and readings    *)
(* not counted.  The main thread (setup(), loop(), the handlers, delay(),   *)
(* the scale factor dialog) keeps running, and conversions keep completing. *)
(***************************************************************************)
Main ==
  \/ setup
  \/ LoopTest
  \/ LoopClear
  \/ LoopReadLive
  \/ LoopIdle
  \/ CmdNewline
  \/ CmdHelp
  \/ CmdSetGain
  \/ DelayDone
  \/ Set_Scale
  \/ CmdKick
  \/ CmdZeroOffset
  \/ CmdGainOne
  \/ CmdCaptureOffset
  \/ CmdParameters
  \/ CmdToggleLog
  \/ CmdUnknown

LiveNext ==
  \/ Main
  \/ ADCreadLive
  \/ SerialRx

LiveSpec == Init /\ [][LiveNext]_vars /\ WF_vars(Main) /\ WF_vars(ADCreadLive)

TypeOK ==
  /\ pc \in {"setup", "test", "clear", "read", "serial", "delay", "dialog"}
  /\ sample \in 0..nSample
  /\ nIrq \in 0..MaxIrq

(***************************************************************************)
(* Properties                                                              *)
(***************************************************************************)
Awaiting == pc \in {"test", "clear", "read", "serial"}
Blocked == pc \in {"delay", "dialog"}
StoredOffset == GetLong(eeprom, ADCOffsetAddr)
StoredCal == GetFloat(eeprom, ADCCalAddr)
Completed == ev.done # <<>>
Abs(x) == IF x < 0 THEN -x ELSE x

\* C1: when a window completes, the captured raw sum ADCVal0 is the arithmetic
\* sum of the nSample codes read since the last reset, the count is nSample,
\* and ADCHigh / ADCLow are the maximum / minimum of those codes.
C1_WindowTotals ==
  \A d \in Range(ev.done) :
    /\ Len(d.codes) = nSample
    /\ d.n = nSample
    /\ d.sum = SumSeq(d.codes)
    /\ d.high = MaxOf(Range(d.codes))
    /\ d.low = MinOf(Range(d.codes))

\* a window completed whose codes arrived in descending order
C1_Witness ==
  /\ Completed
  /\ ev.done[1].codes[1] > ev.done[1].codes[nSample]
  /\ ev.done[1].low < ev.done[1].high

\* C2: whenever the interpreter awaits a command, ADCOffset and ADCCal in
\* memory equal the values stored in the EEPROM.
C2_WriteThrough ==
  Awaiting => (ADCOffset = StoredOffset /\ ADCCal = StoredCal)

\* an accepted scale-factor entry and a captured offset are both in force
C2_Witness ==
  /\ Awaiting
  /\ ev.op = "set scale" /\ ev.ier > 0
  /\ ADCCal # CalOne
  /\ offsetBy = "O" /\ ADCOffset # 0

\* C3: no conversion result is aggregated more than once: loop() never
\* reads a conversion it has already read.
C3_NoDoubleRead == ~ev.stale

\* C4: one sample per observation of a set flag, none for a clear flag; the
\* samples aggregated never exceed the ready interrupts raised, and a pending
\* observation always stands for an interrupt not yet counted.
C4_OnePerObservation ==
  [][ /\ nAgg' <= nIrq'
      /\ (gotADCValue' \/ pc' \in {"clear", "read"}) => nAgg' < nIrq'
      /\ (pc = "test" /\ pc' # "test") =>
            /\ pc' = (IF gotADCValue THEN "clear" ELSE "serial")
            /\ UNCHANGED <<sample, ADCValSum, ADCHigh, ADCLow, nAgg, gotADCValue>>
      /\ (pc = "clear" /\ pc' = "read") => (~gotADCValue' /\ nAgg' = nAgg)
      /\ (pc = "read" /\ pc' = "serial") =>
            /\ nAgg' = nAgg + 1
            /\ sample' = (sample + 1) % nSample
            /\ (IF ev'.done # <<>> THEN Len(ev'.done[1].codes) ELSE Len(win'))
                 = Len(win) + 1 ]_vars

\* two interrupts were raised before one observation, which took one sample
C4_Witness ==
  /\ ev.op = "read"
  /\ nIrq = 2 /\ nAgg = 1
  /\ ~gotADCValue
  /\ sample = 1

\* C5 as stated: every ready signal raised during the 'G' block stays
\* recorded, so that each can be aggregated after the dialog returns.
C5_AllSignalsKept ==
  Blocked => blockIrq <= (IF gotADCValue THEN 1 ELSE 0)

\* C5 amended: during the 'G' block nothing is aggregated and the window in
\* progress is kept; the signals raised in the block are recorded only in
\* the one-bit flag, which is set from the first of them until the dialog
\* returns; all of them are still unaggregated and only the latest
\* conversion is left to read.
C5_BlockKeepsOneSignal ==
  [][ /\ (Blocked /\ ev'.op # "restart") =>
            /\ UNCHANGED <<sample, ADCValSum, ADCHigh, ADCLow, nAgg>>
            /\ gotADCValue => gotADCValue'
      /\ (Blocked' /\ blockIrq' >= 1) =>
            /\ gotADCValue'
            /\ ~regRead'
            /\ nAgg' + blockIrq' <= nIrq' ]_vars

\* two signals were raised during the block, with a window in progress
C5_Witness ==
  /\ pc = "dialog"
  /\ blockIrq >= 2
  /\ sample = 1

\* C6: a rejected scale-factor entry (ier <= 0) leaves ADCCal, VScale and the
\* EEPROM unchanged, reports "Scale factor not updated" and returns to
\* awaiting a command.
C6_RejectedEntry ==
  [][ (pc = "dialog" /\ ev'.op = "set scale" /\ ev'.ier <= 0) =>
        /\ ADCCal' = ADCCal
        /\ VScale' = VScale
        /\ eeprom' = eeprom
        /\ ev'.out = <<"Scale factor not updated =", "prompt">>
        /\ pc' = "test" ]_vars

\* an entry was rejected while a non-default scale factor was in force
C6_Witness ==
  /\ ev.op = "set scale" /\ ev.ier = 0
  /\ ADCCal = 500
  /\ pc = "test"

\* C7: a restart reloads from the EEPROM exactly the ADCCal and ADCOffset that
\* were in force before it, and setup() leaves a programmed EEPROM unwritten.
C7_RestartRoundTrip ==
  [][ /\ ev'.op = "restart" =>
            /\ ADCCal' = ADCCal
            /\ ADCOffset' = ADCOffset
            /\ eeprom' = eeprom
      /\ (ev'.op = "setup" /\ GetInt(eeprom, EEPROMProgrammedFlagAddr) = EEPROMFlag) =>
            eeprom' = eeprom ]_vars

\* restart after an accepted entry of 0.5 and a captured offset
C7_Witness ==
  /\ ev.op = "restart"
  /\ ADCCal = 500
  /\ offsetBy = "O" /\ ADCOffset # 0

\* C8: after 'O', ADCOffset is the negative of the raw sum of the last
\* completed window (0 when none completed since start-up), whatever offset
\* was in force, and that value is stored in the EEPROM.
C8_CaptureOffset ==
  ev.op = "capture offset" =>
    /\ ADCOffset = -lastRaw
    /\ StoredOffset = -lastRaw

\* 'O' part-way through a window, after a window completed under a non-zero offset
C8_Witness ==
  /\ ev.op = "capture offset"
  /\ ev.prevOffset # 0
  /\ lastRaw # 0
  /\ lastRaw # -ev.prevOffset
  /\ sample = 1

\* C9 as stated: after 'O', a next window of nSample zero-valued samples
\* gives Amps = 0.
C9_ZeroSamplesZeroAmps ==
  (Completed /\ offsetBy = "O" /\ \A c \in Range(ev.done[1].codes) : c = 0)
    => ev.done[1].amps = 0

\* C9 amended: with the offset captured by 'O' in force (ADCOffset = -S, S the
\* captured raw sum), a completed window gives
\* Amps = VScale * ((raw sum - S) / nSample) in C integer division: 0 when the
\* window repeats the captured raw sum, and for zero-valued samples 0 exactly
\* when |S| < nSample (VScale being non-zero).
C9_CapturedOffsetReading ==
  (Completed /\ offsetBy = "O") =>
    LET d == ev.done[1]
        raw == SumSeq(d.codes)
    IN /\ d.amps = VScale * CDiv(raw + ADCOffset, nSample)
       /\ (raw = -ADCOffset) => d.amps = 0
       /\ (raw = 0 /\ VScale # 0) => (d.amps = 0 <=> Abs(ADCOffset) < nSample)

\* zero-valued samples after a capture of a raw sum of nSample or more
C9_Witness ==
  /\ Completed
  /\ offsetBy = "O"
  /\ \A c \in Range(ev.done[1].codes) : c = 0
  /\ Abs(ADCOffset) >= nSample
  /\ ev.done[1].amps < 0

\* C10: ')' leaves ADCOffset, fADCOffset and the stored offset at 0, and leaves
\* ADCCal and the stored scale factor unchanged.
C10_ZeroOffset ==
  [][ ev'.op = "zero offset" =>
        /\ ADCOffset' = 0
        /\ fADCOffset' = 0
        /\ GetLong(eeprom', ADCOffsetAddr) = 0
        /\ ADCCal' = ADCCal
        /\ GetFloat(eeprom', ADCCalAddr) = GetFloat(eeprom, ADCCalAddr) ]_vars

\* ')' after a captured (negative) offset, with a non-default scale factor
C10_Witness ==
  /\ ev.op = "zero offset"
  /\ ev.prevOffset < 0
  /\ ADCCal = 2000 /\ StoredCal = 2000
  /\ ADCOffset = 0

\* number of occurrences of token t in the output s
Count(t, s) == Cardinality({i \in 1..Len(s) : s[i] = t})
Calibration == <<ADCCal, ADCOffset, VScale, fADCOffset, eeprom>>

\* C11: 'S' flips SerialDisplay, prints the log header once and no prompt, and
\* leaves the calibration state and the EEPROM unchanged; so do newline, help,
\* 'P', 'K' and an unrecognized byte.
C11_ToggleKeepsCalibration ==
  [][ /\ ev'.op = "toggle log" =>
            /\ SerialDisplay' = ~SerialDisplay
            /\ Count("columns", ev'.out) = 1
            /\ Count("prompt", ev'.out) = 0
            /\ UNCHANGED Calibration
      /\ ev'.op \in {"newline", "help", "parameters", "kick", "unknown"} =>
            /\ UNCHANGED Calibration
            /\ UNCHANGED SerialDisplay ]_vars

\* logging turned on while a captured offset and an entered scale factor are in force
C11_Witness ==
  /\ ev.op = "toggle log"
  /\ SerialDisplay
  /\ offsetBy = "O" /\ ADCOffset # 0
  /\ ADCCal = 500

\* C12: the only byte of a line that is dispatched as a command is its first
\* byte; the terminator of a line is never dispatched as a command of its own.
C12_OnlyFirstByteDispatched == ev.cmdChar \notin TailChars

\* C13: when the stored flag differs from EEPROMFlag, setup() leaves the flag,
\* offset 0 and scale factor 1.0 in the EEPROM and ADCOffset = 0, ADCCal = 1.0 in
\* memory, whatever the store held; when the flag is EEPROMFlag, setup() writes
\* nothing; in both cases setup() ends in the main loop.
C13_SetupDefaults ==
  [][ ev'.op \in {"setup", "restart"} =>
        /\ pc' = "test"
        /\ IF GetInt(eeprom, EEPROMProgrammedFlagAddr) # EEPROMFlag
           THEN /\ GetInt(eeprom', EEPROMProgrammedFlagAddr) = EEPROMFlag
                /\ GetLong(eeprom', ADCOffsetAddr) = 0
                /\ GetFloat(eeprom', ADCCalAddr) = CalOne
                /\ ADCOffset' = 0
                /\ ADCCal' = CalOne
           ELSE eeprom' = eeprom ]_vars

\* first boot: setup() has just loaded the defaults
C13_Witness ==
  /\ ev.op = "setup"
  /\ Count("loading defaults", ev.out) = 1
  /\ eeprom = Programmed(0, CalOne)
  /\ ADCOffset = 0 /\ ADCCal = CalOne


\* C14: outside setup() one window is open with 0 <= sample < nSample, ADCValSum
\* is the sum of exactly the sample codes aggregated since the last reset
\* (no offset folded in), a window with sample = 0 is in its reset state, and a
\* window is completed, consumed and reset by one step of the loop.
C14_OneOpenWindow ==
  pc # "setup" =>
    /\ sample \in 0..(nSample - 1)
    /\ Len(win) = sample
    /\ ADCValSum = SumSeq(win)
    /\ sample = 0 => (ADCValSum = 0 /\ ADCHigh = HighReset /\ ADCLow = LowReset)
    /\ Completed => (ev.op = "read" /\ sample = 0 /\ pc = "serial")

\* a command is about to be dispatched part-way through a window, with a
\* captured offset in force
C14_Witness ==
  /\ pc = "serial" /\ rx # <<>>
  /\ sample = nSample - 1
  /\ ADCValSum = MaxCode
  /\ offsetBy = "O" /\ ADCOffset # 0


\* C15: a step emits a log record only when it completes a window; a completed
\* window emits exactly one record when SerialDisplay is true and none when it
\* is false; the record carries that window's own reading, maximum and minimum.
C15_OneLogPerWindow ==
  /\ ev.log # <<>> => (Completed /\ ev.op = "read")
  /\ Completed =>
       /\ Len(ev.log) = (IF SerialDisplay THEN 1 ELSE 0)
       /\ SerialDisplay =>
            LET d == ev.done[1]
                r == ev.log[1]
                hi == MaxOf(Range(d.codes))
                lo == MinOf(Range(d.codes))
            IN /\ r.amps = d.amps
               /\ r.high = FMul(VScale, hi * 1000 + fADCOffset)
               /\ r.low = FMul(VScale, lo * 1000 + fADCOffset)
               /\ r.delta = r.high - r.low

\* a logged window whose maximum and minimum differ
C15_Witness ==
  /\ Completed /\ SerialDisplay /\ Len(ev.log) = 1
  /\ ev.done[1].high = MaxCode /\ ev.done[1].low = 0
  /\ VScale # NaN /\ ev.log[1].delta > 0


\* C16 as stated: the mean printed first in the log record is the window's raw
\* sum divided by the sample count, while Amps comes from the corrected sum.
C16_PrintedMeanIsRaw ==
  (Completed /\ SerialDisplay) =>
    LET d == ev.done[1]
        raw == SumSeq(d.codes)
    IN /\ ev.log[1].mean = CDiv(raw, d.n)
       /\ d.amps = FMul(VScale, CDiv(raw + ADCOffset, d.n))

\* C16 amended: one mean serves both; the printed mean and Amps are both taken
\* from the offset-corrected sum (raw sum + ADCOffset) divided by the sample
\* count, and the raw sum survives only in ADCVal0.
C16_PrintedMeanIsCorrected ==
  (Completed /\ SerialDisplay) =>
    LET d == ev.done[1]
        raw == SumSeq(d.codes)
    IN /\ ev.log[1].mean = CDiv(raw + ADCOffset, d.n)
       /\ d.amps = FMul(VScale, ev.log[1].mean)
       /\ ADCVal0 = raw

\* a logged window whose corrected mean differs from its raw mean
C16_Witness ==
  /\ Completed /\ SerialDisplay
  /\ ADCOffset # 0
  /\ ev.log[1].mean # CDiv(SumSeq(ev.done[1].codes), ev.done[1].n)


\* C17: once setup() has run, the derived values agree with the constants they
\* derive from in every state: fADCOffset = ADCOffset / nSample (in thousandths)
\* and VScale = ADCCal * VFull / ADCFull (in the units of VScaleOf), so no window
\* computation or log record ever uses a stale derived value.
C17_DerivedUpToDate ==
  pc # "setup" =>
    /\ Abs(fADCOffset * nSample - ADCOffset * 1000) < nSample
    /\ Abs(VScale * ADCFull - ADCCal * VFull * 100) < ADCFull

\* an accepted scale factor entry after an offset capture
C17_Witness ==
  /\ ev.op = "set scale" /\ ev.ier > 0
  /\ ADCCal = 500
  /\ offsetBy = "O" /\ ADCOffset = -MaxCode


\* C18 as stated: the stored bytes are the flag, then the offset, then the
\* scale factor.
C18_FlagOffsetScale ==
  pc # "setup" =>
    /\ GetBytes(eeprom, EEPROMProgrammedFlagAddr, SizeofInt) = IntBytes(EEPROMFlag)
    /\ GetBytes(eeprom, EEPROMProgrammedFlagAddr + SizeofInt, SizeofLong)
         = LongBytes(ADCOffset)
    /\ GetBytes(eeprom, EEPROMProgrammedFlagAddr + SizeofInt + SizeofLong, SizeofFloat)
         = FloatBytes(ADCCal)

\* C18 amended: the stored bytes are the flag, then the scale factor at the
\* address right after the flag, then the offset at the address right after
\* the scale factor.
C18_FlagScaleOffset ==
  pc # "setup" =>
    /\ GetBytes(eeprom, EEPROMProgrammedFlagAddr, SizeofInt) = IntBytes(EEPROMFlag)
    /\ GetBytes(eeprom, EEPROMProgrammedFlagAddr + SizeofInt, SizeofFloat)
         = FloatBytes(ADCCal)
    /\ GetBytes(eeprom, EEPROMProgrammedFlagAddr + SizeofInt + SizeofFloat, SizeofLong)
         = LongBytes(ADCOffset)

\* a store holding an entered scale factor and a captured offset
C18_Witness ==
  /\ pc # "setup"
  /\ ADCCal = 500
  /\ offsetBy = "O" /\ ADCOffset = -MaxCode
  /\ GetBytes(eeprom, ADCCalAddr, SizeofFloat) = <<0, 0, 0, 63>>
  /\ GetBytes(eeprom, ADCOffsetAddr, SizeofLong) = <<255, 255, 255, 255>>


\* the steps of the command interpreter, the scale factor dialog included
CommandOps ==
  {"newline", "help", "kick", "zero offset", "gain one", "capture offset",
   "parameters", "toggle log", "unknown", "set gain", "enter scale", "set scale"}

\* C19: no command step changes sample, ADCValSum, ADCHigh, ADCLow or ADCVal0,
\* and a window that completes is evaluated with the ADCOffset and VScale in
\* force at that moment, over all of its nSample codes.
C19_CommandsKeepWindow ==
  [][ /\ ev'.op \in CommandOps =>
            UNCHANGED <<sample, ADCValSum, ADCHigh, ADCLow, ADCVal0>>
      /\ ev'.done # <<>> =>
            LET d == ev'.done[1]
            IN /\ d.codes = Append(win, adcReg)
               /\ Len(d.codes) = nSample
               /\ d.amps = FMul(VScale, CDiv(SumSeq(d.codes) + ADCOffset, nSample)) ]_vars

\* an offset capture that changes the offset part-way through a window
C19_Witness ==
  /\ ev.op = "capture offset"
  /\ ADCOffset # ev.prevOffset
  /\ sample = nSample - 1
  /\ ADCValSum = MaxCode


\* C20: with the main thread and the ADC interrupt weakly fair, and every
\* handler returning, windows complete again and again, whatever serial input
\* arrives: each completion updates the display, toggles the activity LED and
\* resets the window.
C20_WindowsKeepCompleting ==
  []<>(Completed /\ ev.done[1].led = "toggle" /\ sample = 0)

\* a window completed after a scale factor dialog and a log toggle
C20_Witness ==
  /\ Completed /\ ev.done[1].led = "toggle"
  /\ ADCCal = 500
  /\ SerialDisplay


====
